---- MODULE Spec2Model ----
(***************************************************************************)
(* Model of the pilot monitoring core.                                     *)
(*                                                                         *)
(*  - pilot/control/monitor.py: control() and run_checks(), the one-second *)
(*    control loop with the abort escalation (specification SpecControl).  *)
(*  - pilot/util/monitoring.py: job_monitor_tasks() and the checks it      *)
(*    runs (specification SpecMonitor, utility commands that keep          *)
(*    running), and utility_monitor() with utility commands that end by    *)
(*    themselves (specification SpecUtility).                              *)
(*  - get_max_running_time(), get_max_allowed_work_dir_size() and          *)
(*    get_local_size_limit_stdout() as functions of their arguments        *)
(*    (specification SpecResolve).                                         *)
(*                                                                         *)
(* Time is a clock of whole seconds.  time.sleep(1) and an expired         *)
(* Event.wait(1) advance it by one second, every other statement takes no  *)
(* time.  The other threads of the pilot act between any two steps.        *)
(***************************************************************************)
EXTENDS Integers, Sequences, FiniteSets

VARIABLES
    now,                \* the clock: seconds since control() took t0 (line 44)
    \* ---- pilot/control/monitor.py ----
    pc,                 \* position of the control thread
    graceful_stop,      \* args.graceful_stop (threading.Event)
    abort_job,          \* args.abort_job
    job_aborted,        \* args.job_aborted
    t0,                 \* run_checks' local t0 (lines 170 and 187)
    tcpu,               \* control's tcpu (lines 52 and 95)
    pilot_age,          \* seconds the pilot had run when control() started
    max_running_time,   \* control's max_running_time (line 59)
    reached_maxtime,    \* environ['REACHED_MAXTIME'] is set (line 77)
    \* history of the current (or last) run_checks call and of the session
    rc_start,           \* time at which run_checks saw abort_job set, or -1
    rc_wait_end,        \* time at which the 120 s wait loop ran out, or -1
    rc_gs_seen,         \* what line 178 read: "unread", "set" or "clear"
    rc_gs_sets,         \* graceful_stop.set() calls made by this run_checks
    rc_gs_at,           \* time of that call, or -1
    rc_cleared,         \* this run_checks has called abort_job.clear()
    rc_result,          \* how this run_checks ended, "none" while it has not
    rc_confirmed,       \* time at which the job side set job_aborted during
                        \* this run_checks (its start, if set before), or -1
    raises,             \* ExceededMaxWaitTime raised so far in the session
    fatal_at,           \* time of that raise, or -1
    stop_age,           \* seconds since graceful_stop was set, counted up
                        \* to StopAgeCap; -1 while it is not set
    excs,               \* exceptions raised inside the loop body so far
    check_age,          \* seconds the loop has spent in the wait of line 67
                        \* and the sleep of line 86 since the threads were
                        \* last enumerated (since control() started, before
                        \* that), counted up to CheckAgeCap
    \* ---- pilot/util/monitoring.py ----
    jpc,                \* position of the job monitor in job_monitor_tasks
    current_time,       \* job_monitor_tasks' current_time (line 50)
    mt,                 \* the MonitoringTime object: check name -> timestamp
    job,                \* the job object (the fields the checks use)
    utilities,          \* job.utilities: command -> [alive, launches]
    verify_proxy,       \* args.verify_proxy
    memory_allowed,     \* memory.allow_memory_usage_verifications()
    maxwdir,            \* job.infosys.queuedata.maxwdir
    exit_code,          \* what the last job_monitor_tasks call returned
    diagnostics,
    outcome,            \* "none", "running", "returned" or "raised"
    \* history of the current (or last) job_monitor_tasks call
    calls,              \* the verify_* wrappers called, with their results
    heartbeats,         \* send_state calls
    gate,               \* the last verify_* call: was the check due, did it run
    last_exec,          \* per check: when its underlying check last ran
    cps,                \* the last check_payload_stdout call: input and result
    cwd,                \* the last check_work_dir call: input and result,
                        \* with the size history before it
    crashes,            \* per utility command: processes of it that died
    relaunch_from,      \* per utility command: the launch counter at its
                        \* last relaunch, 0 if never relaunched
    alg_raised,         \* looping_job raised in this job_monitor_tasks call
    entry_state,        \* job.state when this job_monitor_tasks call began,
                        \* "" between two calls
    space_left,         \* what get_local_disk_space gave check_local_space
                        \* in this job_monitor_tasks call (MB), -1 if not called
    attempts,           \* per utility command: execute calls made by
                        \* utility_monitor to relaunch it
    \* ---- the resolution functions, called on their own ----
    rin,                \* the call: function and arguments
    rout                \* what it returned or that it raised

cvars == <<pc, graceful_stop, abort_job, job_aborted, t0, tcpu, pilot_age,
           max_running_time, reached_maxtime>>
chist == <<rc_start, rc_wait_end, rc_gs_seen, rc_gs_sets, rc_gs_at, rc_cleared,
           rc_result, rc_confirmed, raises, fatal_at>>
mvars == <<jpc, current_time, mt, job, utilities, verify_proxy, memory_allowed,
           maxwdir, exit_code, diagnostics, outcome>>
\* calls and heartbeats are of one job_monitor_tasks call; gate, cps and cwd
\* are of its last step
mhist == <<calls, heartbeats, gate, last_exec, cps, cwd, crashes, relaunch_from>>
chist2 == <<stop_age, excs, check_age>>
mhist2 == <<alg_raised, entry_state, space_left, attempts>>
pvars == <<rin, rout>>
vars == <<now, cvars, chist, chist2, mvars, mhist, mhist2, pvars>>

----------------------------------------------------------------------------
(* Bounds of the model *)

\* the clock stops here
MaxTime == 136

\* config.Pilot.cpu_check, in seconds
CpuCheckTime == 3

\* the seconds since graceful_stop was set are counted up to this
StopAgeCap == 2

\* config.Pilot.thread_check, in seconds
ThreadCheckTime == 3

\* the seconds since the threads were enumerated are counted up to this
CheckAgeCap == 4

\* (seconds the pilot had run before control() started, lifetime in force)
Sessions == { <<0, 5>>, <<598, 5>> }

----------------------------------------------------------------------------
(* Program constants *)

TMaxJobAbort == 120
TMaxConfirm == 10
GraceTime == 600

----------------------------------------------------------------------------
(* control(): lines 34-115 *)

Running == pc \notin {"done", "raised"}

\* the control thread is inside run_checks, past its test of abort_job
InRunChecks ==
    pc \in {"rc_wait1", "rc_poll1", "rc_sleep1", "rc_gs", "rc_gs_set",
            "rc_test2", "rc_wait2", "rc_poll2", "rc_sleep2", "rc_fatal"}

\* get_time_since_start(args): wall time since the pilot started
TimeSinceStart == now + pilot_age

\* stop_age after d more seconds
StopAged(d) ==
    IF stop_age = -1 THEN -1
    ELSE IF stop_age + d > StopAgeCap THEN StopAgeCap
    ELSE stop_age + d

\* check_age after d more seconds
CheckAged(d) ==
    IF check_age + d > CheckAgeCap THEN CheckAgeCap ELSE check_age + d

InitControl ==
    /\ now = 0
    /\ pc = "loop"
    /\ graceful_stop = FALSE
    /\ abort_job = FALSE
    /\ job_aborted = FALSE
    /\ t0 = 0
    /\ tcpu = 0
    /\ \E s \in Sessions : pilot_age = s[1] /\ max_running_time = s[2]
    /\ reached_maxtime = FALSE
    /\ rc_start = -1
    /\ rc_wait_end = -1
    /\ rc_gs_seen = "unread"
    /\ rc_gs_sets = 0
    /\ rc_gs_at = -1
    /\ rc_cleared = FALSE
    /\ rc_result = "none"
    /\ rc_confirmed = -1
    /\ raises = 0
    /\ fatal_at = -1
    /\ stop_age = -1
    /\ excs = 0
    /\ check_age = 0

\* line 65: while not args.graceful_stop.is_set()
CtlLoopTest ==
    /\ pc = "loop"
    /\ pc' = IF graceful_stop THEN "done" ELSE "wait"
    /\ UNCHANGED <<now, graceful_stop, abort_job, job_aborted, t0, tcpu,
                   pilot_age, max_running_time, reached_maxtime, chist>>
    /\ UNCHANGED chist2
    /\ UNCHANGED <<mvars, mhist, mhist2, pvars>>

\* line 67: graceful_stop.wait(1): returns at once when the event is set,
\* else blocks for up to one second
CtlWait ==
    /\ pc = "wait"
    /\ IF graceful_stop
         THEN pc' = "done" /\ now' = now
         ELSE now < MaxTime /\ now' = now + 1 /\ pc' = "waited"
    /\ UNCHANGED <<graceful_stop, abort_job, job_aborted, t0, tcpu,
                   pilot_age, max_running_time, reached_maxtime, chist>>
    /\ stop_age' = StopAged(now' - now)
    /\ check_age' = CheckAged(now' - now)
    /\ excs' = excs
    /\ UNCHANGED <<mvars, mhist, mhist2, pvars>>

\* lines 67-68: the value wait(1) returns, or is_set(): break
CtlWaited ==
    /\ pc = "waited"
    /\ pc' = IF graceful_stop THEN "done" ELSE "lifetime"
    /\ UNCHANGED <<now, graceful_stop, abort_job, job_aborted, t0, tcpu,
                   pilot_age, max_running_time, reached_maxtime, chist>>
    /\ UNCHANGED chist2
    /\ UNCHANGED <<mvars, mhist, mhist2, pvars>>

CtlLifetimeNoGrace ==
    /\ pc = "lifetime"
    /\ IF TimeSinceStart > max_running_time
         THEN reached_maxtime' = TRUE /\ pc' = "final_update"
         ELSE reached_maxtime' = reached_maxtime /\ pc' = "sleep"
    /\ UNCHANGED <<now, graceful_stop, abort_job, job_aborted, t0, tcpu,
                   pilot_age, max_running_time, chist>>
    /\ UNCHANGED chist2
    /\ UNCHANGED <<mvars, mhist, mhist2, pvars>>

\* lines 71-77 and 83-85: the lifetime check
CtlLifetime ==
    /\ pc = "lifetime"
    /\ IF TimeSinceStart - GraceTime > max_running_time
         THEN reached_maxtime' = TRUE /\ pc' = "final_update"
         ELSE reached_maxtime' = reached_maxtime /\ pc' = "sleep"
    /\ UNCHANGED <<now, graceful_stop, abort_job, job_aborted, t0, tcpu,
                   pilot_age, max_running_time, chist>>
    /\ UNCHANGED chist2
    /\ UNCHANGED <<mvars, mhist, mhist2, pvars>>

\* line 80: check_for_final_server_update(args.update_server)
CtlFinalUpdate ==
    /\ pc = "final_update"
    /\ pc' = "stop"
    /\ UNCHANGED <<now, graceful_stop, abort_job, job_aborted, t0, tcpu,
                   pilot_age, max_running_time, reached_maxtime, chist>>
    /\ UNCHANGED chist2
    /\ UNCHANGED <<mvars, mhist, mhist2, pvars>>

\* lines 81-82: args.graceful_stop.set(); break
CtlStop ==
    /\ pc = "stop"
    /\ graceful_stop' = TRUE
    /\ pc' = "done"
    /\ UNCHANGED <<now, abort_job, job_aborted, t0, tcpu,
                   pilot_age, max_running_time, reached_maxtime, chist>>
    /\ stop_age' = IF stop_age = -1 THEN 0 ELSE stop_age
    /\ excs' = excs
    /\ check_age' = check_age
    /\ UNCHANGED <<mvars, mhist, mhist2, pvars>>

\* line 86: time.sleep(1)
CtlSleep ==
    /\ pc = "sleep"
    /\ now < MaxTime
    /\ now' = now + 1
    /\ pc' = "cpu"
    /\ UNCHANGED <<graceful_stop, abort_job, job_aborted, t0, tcpu,
                   pilot_age, max_running_time, reached_maxtime, chist>>
    /\ stop_age' = StopAged(now' - now)
    /\ check_age' = CheckAged(now' - now)
    /\ excs' = excs
    /\ UNCHANGED <<mvars, mhist, mhist2, pvars>>

CtlCpuSwallows ==
    /\ pc = "cpu"
    /\ IF now - tcpu > CpuCheckTime
         THEN \E psfails \in BOOLEAN :
                IF psfails
                  THEN pc' = "run_checks" /\ tcpu' = tcpu /\ excs' = excs + 1
                  ELSE pc' = "run_checks" /\ tcpu' = now /\ excs' = excs
         ELSE pc' = "run_checks" /\ tcpu' = tcpu /\ excs' = excs
    /\ UNCHANGED <<now, graceful_stop, abort_job, job_aborted, t0,
                   pilot_age, max_running_time, reached_maxtime, chist>>
    /\ stop_age' = stop_age
    /\ check_age' = check_age
    /\ UNCHANGED <<mvars, mhist, mhist2, pvars>>

\* lines 89-95: the CPU sample; psfails: get_processes_for_command raises,
\* which lines 111-113 turn into a PilotException
CtlCpu ==
    /\ pc = "cpu"
    /\ IF now - tcpu > CpuCheckTime
         THEN \E psfails \in BOOLEAN :
                IF psfails
                  THEN pc' = "raised" /\ tcpu' = tcpu
                  ELSE pc' = "run_checks" /\ tcpu' = now
         ELSE pc' = "run_checks" /\ tcpu' = tcpu
    /\ UNCHANGED <<now, graceful_stop, abort_job, job_aborted, t0,
                   pilot_age, max_running_time, reached_maxtime, chist>>
    /\ excs' = IF pc' = "raised" THEN excs + 1 ELSE excs
    /\ stop_age' = stop_age
    /\ check_age' = check_age
    /\ UNCHANGED <<mvars, mhist, mhist2, pvars>>

\* lines 101-109: the thread check: when the whole seconds since control()
\* started are a multiple of threadchecktime the threads are enumerated (a
\* thread that is not alive is logged, nothing else), n += 1
CtlThreadCheck ==
    /\ pc = "thread"
    /\ pc' = "loop"
    /\ check_age' = IF now % ThreadCheckTime = 0 THEN 0 ELSE check_age
    /\ UNCHANGED <<now, graceful_stop, abort_job, job_aborted, t0, tcpu,
                   pilot_age, max_running_time, reached_maxtime, chist>>
    /\ UNCHANGED <<stop_age, excs>>
    /\ UNCHANGED <<mvars, mhist, mhist2, pvars>>

----------------------------------------------------------------------------
(* run_checks(): lines 152-198 *)

\* lines 163-170: no abort requested: return; else abort the queued jobs and
\* take t0
RcEnter ==
    /\ pc = "run_checks"
    /\ IF abort_job
         THEN /\ pc' = "rc_wait1"
              /\ t0' = now
              /\ rc_start' = now
         ELSE /\ pc' = "thread"
              /\ t0' = t0
              /\ rc_start' = -1
    /\ rc_wait_end' = -1
    /\ rc_gs_seen' = "unread"
    /\ rc_gs_sets' = 0
    /\ rc_gs_at' = -1
    /\ rc_cleared' = FALSE
    /\ rc_result' = "none"
    /\ rc_confirmed' = IF abort_job /\ job_aborted THEN now ELSE -1
    /\ UNCHANGED <<now, graceful_stop, abort_job, job_aborted, tcpu, pilot_age,
                   max_running_time, reached_maxtime, raises, fatal_at>>
    /\ UNCHANGED chist2
    /\ UNCHANGED <<mvars, mhist, mhist2, pvars>>

RcWait1EndsAtOnce ==
    /\ pc = "rc_wait1"
    /\ pc' = "rc_gs"
    /\ rc_wait_end' = now
    /\ UNCHANGED <<now, graceful_stop, abort_job, job_aborted, t0, tcpu,
                   pilot_age, max_running_time, reached_maxtime, rc_start,
                   rc_gs_seen, rc_gs_sets, rc_gs_at, rc_cleared, rc_result,
                   rc_confirmed, raises, fatal_at>>
    /\ UNCHANGED chist2
    /\ UNCHANGED <<mvars, mhist, mhist2, pvars>>

\* line 171: while time.time() - t0 < t_max, with t_max = 2 * 60
RcWait1 ==
    /\ pc = "rc_wait1"
    /\ IF now - t0 < TMaxJobAbort
         THEN pc' = "rc_poll1" /\ rc_wait_end' = rc_wait_end
         ELSE pc' = "rc_gs" /\ rc_wait_end' = now
    /\ UNCHANGED <<now, graceful_stop, abort_job, job_aborted, t0, tcpu,
                   pilot_age, max_running_time, reached_maxtime, rc_start,
                   rc_gs_seen, rc_gs_sets, rc_gs_at, rc_cleared, rc_result,
                   rc_confirmed, raises, fatal_at>>
    /\ UNCHANGED chist2
    /\ UNCHANGED <<mvars, mhist, mhist2, pvars>>

RcPoll1ClearsConfirmation ==
    /\ pc = "rc_poll1"
    /\ IF job_aborted
         THEN /\ abort_job' = FALSE
              /\ job_aborted' = FALSE
              /\ rc_cleared' = TRUE
              /\ rc_result' = "clean1"
              /\ pc' = "thread"
         ELSE /\ pc' = "rc_sleep1"
              /\ UNCHANGED <<abort_job, job_aborted, rc_cleared, rc_result>>
    /\ UNCHANGED <<now, graceful_stop, t0, tcpu, pilot_age,
                   max_running_time, reached_maxtime, rc_start, rc_wait_end,
                   rc_gs_seen, rc_gs_sets, rc_gs_at, rc_confirmed, raises,
                   fatal_at>>
    /\ UNCHANGED chist2
    /\ UNCHANGED <<mvars, mhist, mhist2, pvars>>

\* lines 172-175: job_aborted is set: clear abort_job and return
RcPoll1 ==
    /\ pc = "rc_poll1"
    /\ IF job_aborted
         THEN /\ abort_job' = FALSE
              /\ rc_cleared' = TRUE
              /\ rc_result' = "clean1"
              /\ pc' = "thread"
         ELSE /\ pc' = "rc_sleep1"
              /\ UNCHANGED <<abort_job, rc_cleared, rc_result>>
    /\ UNCHANGED <<now, graceful_stop, job_aborted, t0, tcpu, pilot_age,
                   max_running_time, reached_maxtime, rc_start, rc_wait_end,
                   rc_gs_seen, rc_gs_sets, rc_gs_at, rc_confirmed, raises,
                   fatal_at>>
    /\ UNCHANGED chist2
    /\ UNCHANGED <<mvars, mhist, mhist2, pvars>>

\* line 176: time.sleep(1)
RcSleep1 ==
    /\ pc = "rc_sleep1"
    /\ now < MaxTime
    /\ now' = now + 1
    /\ pc' = "rc_wait1"
    /\ UNCHANGED <<graceful_stop, abort_job, job_aborted, t0, tcpu, pilot_age,
                   max_running_time, reached_maxtime, chist>>
    /\ stop_age' = StopAged(now' - now)
    /\ excs' = excs
    /\ check_age' = check_age
    /\ UNCHANGED <<mvars, mhist, mhist2, pvars>>

RcGsTestIgnored ==
    /\ pc = "rc_gs"
    /\ rc_gs_seen' = IF graceful_stop THEN "set" ELSE "clear"
    /\ pc' = "rc_gs_set"
    /\ UNCHANGED <<now, graceful_stop, abort_job, job_aborted, t0, tcpu,
                   pilot_age, max_running_time, reached_maxtime, rc_start,
                   rc_wait_end, rc_gs_sets, rc_gs_at, rc_cleared, rc_result,
                   rc_confirmed, raises, fatal_at>>
    /\ UNCHANGED chist2
    /\ UNCHANGED <<mvars, mhist, mhist2, pvars>>

\* lines 178-181: if args.graceful_stop.is_set(): log, else go on to set it
RcGsTest ==
    /\ pc = "rc_gs"
    /\ rc_gs_seen' = IF graceful_stop THEN "set" ELSE "clear"
    /\ pc' = IF graceful_stop THEN "rc_test2" ELSE "rc_gs_set"
    /\ UNCHANGED <<now, graceful_stop, abort_job, job_aborted, t0, tcpu,
                   pilot_age, max_running_time, reached_maxtime, rc_start,
                   rc_wait_end, rc_gs_sets, rc_gs_at, rc_cleared, rc_result,
                   rc_confirmed, raises, fatal_at>>
    /\ UNCHANGED chist2
    /\ UNCHANGED <<mvars, mhist, mhist2, pvars>>

\* line 182: args.graceful_stop.set()
RcGsSet ==
    /\ pc = "rc_gs_set"
    /\ graceful_stop' = TRUE
    /\ rc_gs_sets' = rc_gs_sets + 1
    /\ rc_gs_at' = now
    /\ pc' = "rc_test2"
    /\ UNCHANGED <<now, abort_job, job_aborted, t0, tcpu, pilot_age,
                   max_running_time, reached_maxtime, rc_start, rc_wait_end,
                   rc_gs_seen, rc_cleared, rc_result, rc_confirmed, raises,
                   fatal_at>>
    /\ stop_age' = IF stop_age = -1 THEN 0 ELSE stop_age
    /\ excs' = excs
    /\ check_age' = check_age
    /\ UNCHANGED <<mvars, mhist, mhist2, pvars>>

\* lines 184-187: if not args.job_aborted.is_set(): t_max = 10, take t0 again;
\* else the function ends here
RcTest2 ==
    /\ pc = "rc_test2"
    /\ IF ~job_aborted
         THEN pc' = "rc_wait2" /\ t0' = now /\ rc_result' = rc_result
         ELSE pc' = "thread" /\ t0' = t0 /\ rc_result' = "fallthrough"
    /\ UNCHANGED <<now, graceful_stop, abort_job, job_aborted, tcpu, pilot_age,
                   max_running_time, reached_maxtime, rc_start, rc_wait_end,
                   rc_gs_seen, rc_gs_sets, rc_gs_at, rc_cleared, rc_confirmed,
                   raises, fatal_at>>
    /\ UNCHANGED chist2
    /\ UNCHANGED <<mvars, mhist, mhist2, pvars>>

\* line 188: while time.time() - t0 < t_max, with t_max = 10
RcWait2 ==
    /\ pc = "rc_wait2"
    /\ pc' = IF now - t0 < TMaxConfirm THEN "rc_poll2" ELSE "rc_fatal"
    /\ UNCHANGED <<now, graceful_stop, abort_job, job_aborted, t0, tcpu,
                   pilot_age, max_running_time, reached_maxtime, chist>>
    /\ UNCHANGED chist2
    /\ UNCHANGED <<mvars, mhist, mhist2, pvars>>

\* lines 189-192: job_aborted is set: clear abort_job and return
RcPoll2 ==
    /\ pc = "rc_poll2"
    /\ IF job_aborted
         THEN /\ abort_job' = FALSE
              /\ rc_cleared' = TRUE
              /\ rc_result' = "clean2"
              /\ pc' = "thread"
         ELSE /\ pc' = "rc_sleep2"
              /\ UNCHANGED <<abort_job, rc_cleared, rc_result>>
    /\ UNCHANGED <<now, graceful_stop, job_aborted, t0, tcpu, pilot_age,
                   max_running_time, reached_maxtime, rc_start, rc_wait_end,
                   rc_gs_seen, rc_gs_sets, rc_gs_at, rc_confirmed, raises,
                   fatal_at>>
    /\ UNCHANGED chist2
    /\ UNCHANGED <<mvars, mhist, mhist2, pvars>>

\* line 193: time.sleep(1)
RcSleep2 ==
    /\ pc = "rc_sleep2"
    /\ now < MaxTime
    /\ now' = now + 1
    /\ pc' = "rc_wait2"
    /\ UNCHANGED <<graceful_stop, abort_job, job_aborted, t0, tcpu, pilot_age,
                   max_running_time, reached_maxtime, chist>>
    /\ stop_age' = StopAged(now' - now)
    /\ excs' = excs
    /\ check_age' = check_age
    /\ UNCHANGED <<mvars, mhist, mhist2, pvars>>

RcFatalReturns ==
    /\ pc = "rc_fatal"
    /\ abort_job' = FALSE
    /\ rc_cleared' = TRUE
    /\ rc_result' = "clean2"
    /\ pc' = "thread"
    /\ UNCHANGED <<now, graceful_stop, job_aborted, t0, tcpu, pilot_age,
                   max_running_time, reached_maxtime, rc_start, rc_wait_end,
                   rc_gs_seen, rc_gs_sets, rc_gs_at, rc_confirmed, raises,
                   fatal_at>>
    /\ UNCHANGED chist2
    /\ UNCHANGED <<mvars, mhist, mhist2, pvars>>

\* lines 195-198: clear abort_job, set job_aborted, raise ExceededMaxWaitTime;
\* lines 111-113: control re-raises it as a PilotException and ends
RcFatal ==
    /\ pc = "rc_fatal"
    /\ abort_job' = FALSE
    /\ job_aborted' = TRUE
    /\ rc_cleared' = TRUE
    /\ rc_result' = "fatal"
    /\ raises' = raises + 1
    /\ fatal_at' = now
    /\ pc' = "raised"
    /\ UNCHANGED <<now, graceful_stop, t0, tcpu, pilot_age, max_running_time,
                   reached_maxtime, rc_start, rc_wait_end, rc_gs_seen,
                   rc_gs_sets, rc_gs_at, rc_confirmed>>
    /\ excs' = excs + 1
    /\ stop_age' = stop_age
    /\ check_age' = check_age
    /\ UNCHANGED <<mvars, mhist, mhist2, pvars>>

----------------------------------------------------------------------------
(* The rest of the pilot: it sets the three events at any time *)

EnvSetAbortJob ==
    /\ Running
    /\ ~abort_job
    /\ abort_job' = TRUE
    /\ UNCHANGED <<now, pc, graceful_stop, job_aborted, t0, tcpu,
                   pilot_age, max_running_time, reached_maxtime, chist>>
    /\ UNCHANGED chist2
    /\ UNCHANGED <<mvars, mhist, mhist2, pvars>>

EnvSetJobAborted ==
    /\ Running
    /\ ~job_aborted
    /\ job_aborted' = TRUE
    /\ rc_confirmed' = IF InRunChecks THEN now ELSE rc_confirmed
    /\ UNCHANGED <<now, pc, graceful_stop, abort_job, t0, tcpu,
                   pilot_age, max_running_time, reached_maxtime,
                   rc_start, rc_wait_end, rc_gs_seen, rc_gs_sets, rc_gs_at,
                   rc_cleared, rc_result, raises, fatal_at>>
    /\ UNCHANGED chist2
    /\ UNCHANGED <<mvars, mhist, mhist2, pvars>>

EnvSetGracefulStop ==
    /\ Running
    /\ ~graceful_stop
    /\ graceful_stop' = TRUE
    /\ UNCHANGED <<now, pc, abort_job, job_aborted, t0, tcpu,
                   pilot_age, max_running_time, reached_maxtime, chist>>
    /\ stop_age' = IF stop_age = -1 THEN 0 ELSE stop_age
    /\ excs' = excs
    /\ check_age' = check_age
    /\ UNCHANGED <<mvars, mhist, mhist2, pvars>>

----------------------------------------------------------------------------
(* Python values: an int, a str (a sequence of characters) or None *)

PyNum(n) == [t |-> "int", n |-> n, s |-> <<>>]
PyStr(s) == [t |-> "str", n |-> 0, s |-> s]
PyNone == [t |-> "none", n |-> 0, s |-> <<>>]

DigitChars == {"0", "1", "2", "3", "4", "5", "6", "7", "8", "9"}

DigitOf(c) ==
    CASE c = "0" -> 0 [] c = "1" -> 1 [] c = "2" -> 2 [] c = "3" -> 3
      [] c = "4" -> 4 [] c = "5" -> 5 [] c = "6" -> 6 [] c = "7" -> 7
      [] c = "8" -> 8 [] c = "9" -> 9

RECURSIVE DigitsValue(_, _)
DigitsValue(s, acc) ==
    IF s = <<>> THEN acc ELSE DigitsValue(Tail(s), 10 * acc + DigitOf(Head(s)))

IsDigits(s) == s # <<>> /\ \A i \in 1..Len(s) : s[i] \in DigitChars

\* int(v): [ok, n]; ok is FALSE where Python raises ValueError or TypeError
PyInt(v) ==
    IF v.t = "int" THEN [ok |-> TRUE, n |-> v.n]
    ELSE IF v.t = "none" THEN [ok |-> FALSE, n |-> 0]
    ELSE IF IsDigits(v.s) THEN [ok |-> TRUE, n |-> DigitsValue(v.s, 0)]
    ELSE IF v.s # <<>> /\ Head(v.s) = "-" /\ IsDigits(Tail(v.s))
           THEN [ok |-> TRUE, n |-> 0 - DigitsValue(Tail(v.s), 0)]
    ELSE [ok |-> FALSE, n |-> 0]

----------------------------------------------------------------------------
(* Bounds and configuration of the job monitor model *)

\* the clock of the job monitor stops here: in SpecMonitor, in SpecUtility
MonMaxTime == 4
UtilMaxTime == 5

\* config.Pilot.memory_usage_verification_time, proxy_verification_time,
\* looping_verifiction_time, disk_space_verification_time (seconds)
MemoryVerificationTime == 1
ProxyVerificationTime == 2
LoopingVerificationTime == 2
DiskSpaceVerificationTime == 1

\* config.Pilot.local_size_limit_stdout (kB)
LocalSizeLimitConfig == PyStr(<<"2">>)

\* human2bytes(config.Pilot.free_space_limit), in bytes
FreeSpaceLimit == 2 * 1024 * 1024

\* the utility commands a job can have
UtilityCommands == {"MemoryMonitor"}

----------------------------------------------------------------------------
(* Program constants *)

MaxLaunches == 5
DefaultLocalSizeLimit == 2097152
\* pilot.common.errorcodes
UNKNOWNEXCEPTION == 1144
NOLOCALSPACE == 1098
USERDIRTOOLARGE == 1103
STDOUTTOOBIG == 1106

\* exit codes of the pluggable validators and of the looping job algorithm,
\* of the ls of line 415 and of remove_files
ValidatorCodes == {0, 1}
CommandCodes == {0, 1}

CheckNames == {"ct_memory", "ct_proxy", "ct_looping", "ct_diskspace"}

----------------------------------------------------------------------------
(* MonitoringTime *)

\* MonitoringTime(): every timestamp is the time of creation
MtNew(t) == [k \in CheckNames |-> t]

\* mt.update(key): the timestamp becomes int(time.time())
MtUpdate(m, key, t) == [m EXCEPT ![key] = t]

\* lines 113, 140, 165, 196: current_time - mt.get(key) > verification time
IsDueLax(key, interval) == current_time - mt[key] >= interval

IsDue(key, interval) == current_time - mt[key] > interval

----------------------------------------------------------------------------
(* The checks: pure functions of the job and of what the node reports *)

\* errors.add_error_code(code): the code is in the list it returns
AddErrorCode(code, codes) == codes \cup {code}

\* get_local_size_limit_stdout(bytes), lines 273-292, for the value v of
\* config.Pilot.local_size_limit_stdout; what it returns is n * times (kept
\* as a product: Python's int has no upper limit)
LocalSizeLimitStdout(v, bytes) ==
    LET r == PyInt(v)
    IN  [n |-> IF r.ok THEN r.n ELSE DefaultLocalSizeLimit,
         times |-> IF bytes THEN 1024 ELSE 1]

\* get_local_size_limit_stdout(bytes) with the configured value
GetLocalSizeLimitStdout(bytes) ==
    LET r == LocalSizeLimitStdout(LocalSizeLimitConfig, bytes)
    IN  r.n * r.times

\* lines 338-352 for one file that is too big
StdoutTooBig(j, ec, f) ==
    LET j1 == [j EXCEPT !.kills = @ + 1,
                        !.state = "failed",
                        !.errors = AddErrorCode(STDOUTTOOBIG, @)]
        rm == j.infiles # {}
    IN  [job |-> IF rm /\ f.rm = 0 THEN [j1 EXCEPT !.present = {}] ELSE j1,
         exit_code |-> IF rm THEN f.rm ELSE ec,
         diagnostics |-> "Payload stdout file too big"]

\* the loop of lines 323-357 over file_list
RECURSIVE StdoutLoop(_, _, _, _)
StdoutLoop(j, ec, dg, files) ==
    IF files = <<>>
      THEN [job |-> j, exit_code |-> ec, diagnostics |-> dg]
      ELSE LET f == Head(files) IN
           IF ~f.special /\ f.exists /\ f.readable
                /\ f.size > GetLocalSizeLimitStdout(TRUE)
             THEN LET r == StdoutTooBig(j, ec, f)
                  IN  StdoutLoop(r.job, r.exit_code, r.diagnostics, Tail(files))
             ELSE StdoutLoop(j, ec, dg, Tail(files))

\* check_payload_stdout(job), lines 295-359; files is file_list with what the
\* file system says of each file
CheckPayloadStdout(j, files) == StdoutLoop(j, 0, "", files)

CheckLocalSpaceBelowOnly(mb) ==
    IF mb * 1024 * 1024 < FreeSpaceLimit
      THEN [exit_code |-> NOLOCALSPACE,
            diagnostics |-> "too little space left on local disk to run job"]
      ELSE [exit_code |-> 0, diagnostics |-> ""]

\* check_local_space(), lines 362-383; mb is get_local_disk_space(cwd)
CheckLocalSpace(mb) ==
    IF mb * 1024 * 1024 <= FreeSpaceLimit
      THEN [exit_code |-> NOLOCALSPACE,
            diagnostics |-> "too little space left on local disk to run job"]
      ELSE [exit_code |-> 0, diagnostics |-> ""]

\* get_max_input_size(queuedata, megabyte), lines 466-501; given is FALSE for
\* a call without the queuedata argument, which raises TypeError
GetMaxInputSize(given, v, megabyte) ==
    IF ~given THEN [raised |-> TRUE, n |-> 0]
    ELSE LET r == PyInt(v)
             unit == IF megabyte THEN 1 ELSE 1024 * 1024
         IN  IF v # PyStr(<<>>) /\ r.ok
               THEN [raised |-> FALSE, n |-> r.n * unit]
               ELSE [raised |-> FALSE, n |-> 14 * 1024 * unit]

\* get_max_allowed_work_dir_size(queuedata), lines 445-463: line 456 calls
\* get_max_input_size() without its argument
GetMaxAllowedWorkDirSize(v) ==
    LET r == PyInt(v) IN
    IF r.ok THEN [raised |-> FALSE, n |-> r.n * 1024 * 1024]
    ELSE LET m == GetMaxInputSize(FALSE, v, FALSE) IN
         IF m.raised THEN [raised |-> TRUE, n |-> 0]
         ELSE [raised |-> FALSE, n |-> m.n + GetLocalSizeLimitStdout(FALSE) * 1024]

\* lines 408-429: the work directory is too large
WorkDirTooLarge(j, w) ==
    LET j1 == [j EXCEPT !.kills = @ + 1,
                        !.state = "failed",
                        !.errors = AddErrorCode(USERDIRTOOLARGE, @)]
        rm == j.infiles # {}
    IN  [job |-> IF rm /\ w.rm = 0 THEN [j1 EXCEPT !.present = {}] ELSE j1,
         exit_code |-> IF rm THEN w.rm ELSE w.ls,
         size |-> IF rm THEN w.resize ELSE w.size]

\* lines 435-436: store the measured size
StoreSize(j, size) ==
    IF size > 0 THEN [j EXCEPT !.sizes = Append(@, size)] ELSE j

\* check_work_dir(job), lines 386-442; w is what the node reports: the two
\* os.path.exists, the measured size, the exit codes of ls and remove_files,
\* the size measured again after the clean-up
CheckWorkDir(j, w) ==
    LET max == GetMaxAllowedWorkDirSize(maxwdir) IN
    IF ~w.exists1
      THEN [raised |-> FALSE, job |-> j, exit_code |-> 0, diagnostics |-> ""]
    ELSE IF max.raised
      THEN [raised |-> TRUE, job |-> j, exit_code |-> 0, diagnostics |-> ""]
    ELSE IF ~w.exists2
      THEN [raised |-> FALSE, job |-> j, exit_code |-> 0, diagnostics |-> ""]
    ELSE IF w.size > max.n
      THEN LET r == WorkDirTooLarge(j, w) IN
           [raised |-> FALSE, job |-> StoreSize(r.job, r.size),
            exit_code |-> r.exit_code,
            diagnostics |-> "work directory is too large"]
    ELSE [raised |-> FALSE, job |-> StoreSize(j, w.size), exit_code |-> 0,
          diagnostics |-> ""]

UtilityMonitorNoCap(utils, started) ==
    [u \in DOMAIN utils |->
        IF ~utils[u].alive /\ started[u]
          THEN [alive |-> TRUE, launches |-> utils[u].launches + 1]
          ELSE utils[u]]

UtilityMonitorLaxCap(utils, started) ==
    [u \in DOMAIN utils |->
        IF ~utils[u].alive /\ utils[u].launches <= MaxLaunches + 1 /\ started[u]
          THEN [alive |-> TRUE, launches |-> utils[u].launches + 1]
          ELSE utils[u]]

\* utility_monitor(job), lines 220-270; started[u] is FALSE when the execute
\* of line 249 raises
UtilityMonitor(utils, started) ==
    [u \in DOMAIN utils |->
        IF ~utils[u].alive /\ utils[u].launches <= MaxLaunches /\ started[u]
          THEN [alive |-> TRUE, launches |-> utils[u].launches + 1]
          ELSE utils[u]]

----------------------------------------------------------------------------
(* What the node reports to the disk checks *)

\* files of file_list: at most this many
MaxFiles == 2

File(special, exists, readable, size, rm) ==
    [special |-> special, exists |-> exists, readable |-> readable,
     size |-> size, rm |-> rm]

\* a file of file_list: the skipped archive, a file not yet created, one whose
\* size cannot be read, one within the limit, one over it (rm: the exit code
\* remove_files would return)
FileChoices ==
    { File(TRUE, TRUE, TRUE, GetLocalSizeLimitStdout(TRUE) + 1, 0),
      File(FALSE, FALSE, TRUE, 0, 0),
      File(FALSE, TRUE, FALSE, GetLocalSizeLimitStdout(TRUE) + 1, 0),
      File(FALSE, TRUE, TRUE, GetLocalSizeLimitStdout(TRUE), 0) }
    \cup { File(FALSE, TRUE, TRUE, GetLocalSizeLimitStdout(TRUE) + 1, c) :
             c \in CommandCodes }

FileLists == UNION { [1..n -> FileChoices] : n \in 1..MaxFiles }

\* a checked file is over the limit
SomeFileTooBig(files) ==
    \E i \in 1..Len(files) :
        /\ ~files[i].special
        /\ files[i].exists
        /\ files[i].readable
        /\ files[i].size > GetLocalSizeLimitStdout(TRUE)

\* get_local_disk_space(cwd), in MB
FreeSpaces == {1, 2, 3}

\* queuedata.maxwdir of the session
MaxWdirs == { PyStr(<<"1">>), PyStr(<<>>) }

WorkDirSizes == {0, 1024 * 1024, 1024 * 1024 + 1}

WorkDir(exists1, exists2, size, ls, rm, resize) ==
    [exists1 |-> exists1, exists2 |-> exists2, size |-> size, ls |-> ls,
     rm |-> rm, resize |-> resize]

WorkDirReports ==
    { WorkDir(FALSE, FALSE, 0, 0, 0, 0), WorkDir(TRUE, FALSE, 0, 0, 0, 0) }
    \cup { WorkDir(TRUE, TRUE, sz, 0, 0, sz) : sz \in WorkDirSizes }
    \cup { WorkDir(TRUE, TRUE, 1024 * 1024 + 1, ls, rm, sz) :
             ls \in CommandCodes, rm \in CommandCodes,
             sz \in {0, 1024 * 1024} }

----------------------------------------------------------------------------
(* job_monitor_tasks(): lines 34-91 *)

NoGate == [check |-> "none", due |-> FALSE, ran |-> FALSE, since |-> -1,
           prev_ok |-> FALSE]
NoExec == [t |-> -1, ok |-> FALSE]
NoCps == [ran |-> FALSE, big |-> FALSE, exit_code |-> 0, state_before |-> "",
          state_after |-> "", errors |-> {}, kills |-> 0, infiles |-> {},
          present |-> {}]
NoCwd == [ran |-> FALSE, size |-> 0, max |-> 0, exit_code |-> 0,
          state_before |-> "", state_after |-> "", errors_before |-> {},
          errors_after |-> {}, kills |-> 0, called |-> FALSE,
          exists |-> FALSE, raised |-> FALSE, cleaned |-> FALSE,
          resize |-> 0, sizes_before |-> <<>>]

\* the job monitor before its first call of job_monitor_tasks; j is the job,
\* us its utility commands, each launched once
MonitorStart(j, us) ==
    /\ now = 0
    /\ jpc = "idle"
    /\ current_time = 0
    /\ mt = MtNew(0)
    /\ job = j
    /\ utilities = [u \in us |-> [alive |-> TRUE, launches |-> 1]]
    /\ exit_code = 0
    /\ diagnostics = ""
    /\ outcome = "none"
    /\ calls = <<>>
    /\ heartbeats = 0
    /\ gate = NoGate
    /\ last_exec = [k \in CheckNames |-> NoExec]
    /\ cps = NoCps
    /\ cwd = NoCwd
    /\ crashes = [u \in UtilityCommands |-> 0]
    /\ relaunch_from = [u \in UtilityCommands |-> 0]
    /\ alg_raised = FALSE
    /\ entry_state = ""
    /\ space_left = -1
    /\ attempts = [u \in UtilityCommands |-> 0]

NewJob(st, inf) ==
    [state |-> st, errors |-> {}, kills |-> 0, infiles |-> inf,
     present |-> inf, sizes |-> <<>>, cpu_sampled |-> FALSE]

InitMonitor ==
    /\ \E st \in {"running", "stageout"}, inf \in SUBSET {"in1"},
          us \in {{}, {"MemoryMonitor"}} :
          MonitorStart(NewJob(st, inf), us)
    /\ verify_proxy \in BOOLEAN
    /\ memory_allowed \in BOOLEAN
    /\ maxwdir \in MaxWdirs

\* a running job with all its utility commands on a node where only the
\* looping job and disk checks apply
InitUtility ==
    /\ MonitorStart(NewJob("running", {}), UtilityCommands)
    /\ verify_proxy = FALSE
    /\ memory_allowed = FALSE
    /\ maxwdir = PyStr(<<"1">>)

JobMonitorTasksAnyState ==
    /\ jpc = "idle"
    /\ current_time' = now
    /\ job' = [job EXCEPT !.kills = 0, !.cpu_sampled = TRUE]
    /\ jpc' = "memory"
    /\ outcome' = "running"
    /\ UNCHANGED <<calls, heartbeats>>
    /\ UNCHANGED <<now, mt, utilities, verify_proxy, memory_allowed, maxwdir,
                   exit_code, diagnostics, gate, cps, cwd, last_exec, crashes,
                   relaunch_from>>
    /\ alg_raised' = FALSE
    /\ entry_state' = job.state
    /\ space_left' = -1
    /\ UNCHANGED attempts
    /\ UNCHANGED <<cvars, chist, chist2, pvars>>

\* lines 46-59: take current_time; sample the CPU time of a running job
JobMonitorTasks ==
    /\ jpc = "idle"
    /\ current_time' = now
    /\ job' = [job EXCEPT !.kills = 0, !.cpu_sampled = (job.state = "running")]
    /\ jpc' = IF job.state = "running" THEN "memory" ELSE "proxy"
    /\ outcome' = "running"
    /\ UNCHANGED <<calls, heartbeats>>
    /\ UNCHANGED <<now, mt, utilities, verify_proxy, memory_allowed, maxwdir,
                   exit_code, diagnostics, gate, cps, cwd, last_exec, crashes,
                   relaunch_from>>
    /\ alg_raised' = FALSE
    /\ entry_state' = job.state
    /\ space_left' = -1
    /\ UNCHANGED attempts
    /\ UNCHANGED <<cvars, chist, chist2, pvars>>

\* return exit_code, diagnostics
Return(ec, dg) ==
    /\ jpc' = "returned"
    /\ exit_code' = ec
    /\ diagnostics' = dg
    /\ outcome' = "returned"

Continue(next) ==
    /\ jpc' = next
    /\ UNCHANGED <<exit_code, diagnostics, outcome>>

Called(name, ec, dg) ==
    calls' = Append(calls, [name |-> name, exit_code |-> ec, diagnostics |-> dg])

\* what a verify_* wrapper saw of its gate, and the run of its check
Gated(key, due, ran, ok) ==
    /\ gate' = [check |-> key, due |-> due, ran |-> ran,
                since |-> IF last_exec[key].t = -1 THEN -1
                          ELSE current_time - last_exec[key].t,
                prev_ok |-> last_exec[key].ok]
    /\ last_exec' = IF ran
                      THEN [last_exec EXCEPT ![key] =
                              [t |-> current_time, ok |-> ok]]
                      ELSE last_exec

VerifyGatedAlwaysUpdates(name, key, due, r, next) ==
    LET ec == IF due THEN r.exit_code ELSE 0
        dg == IF due /\ r.exit_code # 0 THEN r.diagnostics ELSE ""
    IN  /\ mt' = IF due THEN MtUpdate(mt, key, now) ELSE mt
        /\ Gated(key, due, due, ec = 0)
        /\ Called(name, ec, dg)
        /\ IF ec # 0 THEN Return(ec, dg) ELSE Continue(next)

\* the body shared by the verify_* wrappers: when the check is due run it
\* (r is what it returns); a non-zero exit code is returned as it is, else
\* the timestamp is updated; the caller returns a non-zero result at once
VerifyGated(name, key, due, r, next) ==
    LET ec == IF due THEN r.exit_code ELSE 0
        dg == IF due /\ r.exit_code # 0 THEN r.diagnostics ELSE ""
    IN  /\ mt' = IF due /\ ec = 0 THEN MtUpdate(mt, key, now) ELSE mt
        /\ Gated(key, due, due, ec = 0)
        /\ Called(name, ec, dg)
        /\ IF ec # 0 THEN Return(ec, dg) ELSE Continue(next)

\* lines 62-64 with verify_memory_usage, lines 94-122
VerifyMemoryUsage ==
    /\ jpc = "memory"
    /\ \E ec \in ValidatorCodes :
          VerifyGated("memory", "ct_memory",
                      memory_allowed /\ IsDue("ct_memory", MemoryVerificationTime),
                      [exit_code |-> ec, diagnostics |-> "memory"], "proxy")
    /\ UNCHANGED <<now, current_time, job, utilities, verify_proxy,
                   memory_allowed, maxwdir, heartbeats, cps, cwd, crashes,
                   relaunch_from>>
    /\ UNCHANGED mhist2
    /\ UNCHANGED <<cvars, chist, chist2, pvars>>

VerifyUserProxyGoesOn ==
    /\ jpc = "proxy"
    /\ IF ~verify_proxy
         THEN /\ Continue("looping")
              /\ UNCHANGED <<mt, calls, gate, last_exec>>
         ELSE \E ec \in ValidatorCodes :
                LET due == IsDue("ct_proxy", ProxyVerificationTime) IN
                /\ mt' = IF due /\ ec = 0 THEN MtUpdate(mt, "ct_proxy", now) ELSE mt
                /\ Gated("ct_proxy", due, due, ec = 0)
                /\ Called("proxy", IF due THEN ec ELSE 0, "")
                /\ Continue("looping")
    /\ UNCHANGED <<now, current_time, job, utilities, verify_proxy,
                   memory_allowed, maxwdir, heartbeats, cps, cwd, crashes,
                   relaunch_from>>
    /\ UNCHANGED mhist2
    /\ UNCHANGED <<cvars, chist, chist2, pvars>>

\* lines 67-70 with verify_user_proxy, lines 125-149
VerifyUserProxy ==
    /\ jpc = "proxy"
    /\ IF ~verify_proxy
         THEN /\ Continue("looping")
              /\ UNCHANGED <<mt, calls, gate, last_exec>>
         ELSE \E ec \in ValidatorCodes :
                VerifyGated("proxy", "ct_proxy",
                            IsDue("ct_proxy", ProxyVerificationTime),
                            [exit_code |-> ec, diagnostics |-> "proxy"],
                            "looping")
    /\ UNCHANGED <<now, current_time, job, utilities, verify_proxy,
                   memory_allowed, maxwdir, heartbeats, cps, cwd, crashes,
                   relaunch_from>>
    /\ UNCHANGED mhist2
    /\ UNCHANGED <<cvars, chist, chist2, pvars>>

LoopingRaisedText == "exception caught in looping job algorithm"

VerifyLoopingJobAbsorbs ==
    /\ jpc = "looping"
    /\ \E ec \in ValidatorCodes, raised \in BOOLEAN :
          LET due == IsDue("ct_looping", LoopingVerificationTime) IN
          /\ VerifyGated("looping", "ct_looping", due,
                         IF raised
                           THEN [exit_code |-> 0, diagnostics |-> ""]
                           ELSE [exit_code |-> ec, diagnostics |-> "looping"],
                         "disk")
          /\ alg_raised' = (due /\ raised)
          /\ UNCHANGED <<entry_state, space_left, attempts>>
    /\ UNCHANGED <<now, current_time, job, utilities, verify_proxy,
                   memory_allowed, maxwdir, heartbeats, cps, cwd, crashes,
                   relaunch_from>>
    /\ UNCHANGED <<cvars, chist, chist2, pvars>>

\* lines 73-75 with verify_looping_job, lines 152-181; the looping job
\* algorithm returns an exit code or raises
VerifyLoopingJob ==
    /\ jpc = "looping"
    /\ \E ec \in ValidatorCodes, raised \in BOOLEAN :
          LET due == IsDue("ct_looping", LoopingVerificationTime) IN
          /\ VerifyGated("looping", "ct_looping", due,
                         IF raised
                           THEN [exit_code |-> UNKNOWNEXCEPTION,
                                 diagnostics |-> LoopingRaisedText]
                           ELSE [exit_code |-> ec, diagnostics |-> "looping"],
                         "disk")
          /\ alg_raised' = (due /\ raised)
          /\ UNCHANGED <<entry_state, space_left, attempts>>
    /\ UNCHANGED <<now, current_time, job, utilities, verify_proxy,
                   memory_allowed, maxwdir, heartbeats, cps, cwd, crashes,
                   relaunch_from>>
    /\ UNCHANGED <<cvars, chist, chist2, pvars>>

\* line 78 with verify_disk_usage, lines 195-196 and 217: is the check due
VerifyDiskUsage ==
    /\ jpc = "disk"
    /\ IF IsDue("ct_diskspace", DiskSpaceVerificationTime)
         THEN /\ jpc' = "stdout"
              /\ UNCHANGED <<calls, gate, last_exec>>
         ELSE /\ jpc' = "utility"
              /\ Gated("ct_diskspace", FALSE, FALSE, FALSE)
              /\ Called("disk", 0, "")
    /\ UNCHANGED <<now, current_time, mt, job, utilities, verify_proxy,
                   memory_allowed, maxwdir, exit_code, diagnostics, outcome,
                   heartbeats, cps, cwd, crashes, relaunch_from>>
    /\ UNCHANGED mhist2
    /\ UNCHANGED <<cvars, chist, chist2, pvars>>

\* verify_disk_usage returns a non-zero result, which lines 79-80 return
DiskFails(ec, dg) ==
    /\ Gated("ct_diskspace", TRUE, TRUE, FALSE)
    /\ Called("disk", ec, dg)
    /\ Return(ec, dg)
    /\ mt' = mt

\* lines 200-202: check_payload_stdout(job)
DiskPayloadStdout ==
    /\ jpc = "stdout"
    /\ \E files \in FileLists :
          LET r == CheckPayloadStdout(job, files) IN
          /\ job' = r.job
          /\ cps' = [ran |-> TRUE, big |-> SomeFileTooBig(files),
                     exit_code |-> r.exit_code, state_before |-> job.state,
                     state_after |-> r.job.state, errors |-> r.job.errors,
                     kills |-> r.job.kills - job.kills,
                     infiles |-> job.infiles, present |-> r.job.present]
          /\ IF r.exit_code # 0
               THEN DiskFails(r.exit_code, r.diagnostics)
               ELSE /\ Continue("space")
                    /\ UNCHANGED <<mt, calls, gate, last_exec>>
    /\ UNCHANGED <<now, current_time, utilities, verify_proxy, memory_allowed,
                   maxwdir, heartbeats, cwd, crashes, relaunch_from>>
    /\ UNCHANGED mhist2
    /\ UNCHANGED <<cvars, chist, chist2, pvars>>

\* lines 205-207: check_local_space()
DiskLocalSpace ==
    /\ jpc = "space"
    /\ \E mb \in FreeSpaces :
          LET r == CheckLocalSpace(mb) IN
          /\ space_left' = mb
          /\ IF r.exit_code # 0
               THEN DiskFails(r.exit_code, r.diagnostics)
               ELSE /\ Continue("workdir")
                    /\ UNCHANGED <<mt, calls, gate, last_exec>>
    /\ cps' = NoCps
    /\ UNCHANGED <<now, current_time, job, utilities, verify_proxy,
                   memory_allowed, maxwdir, heartbeats, cwd, crashes,
                   relaunch_from>>
    /\ UNCHANGED <<alg_raised, entry_state, attempts>>
    /\ UNCHANGED <<cvars, chist, chist2, pvars>>

\* lines 210-217: check_work_dir(job), then mt.update('ct_diskspace'); an
\* exception of check_work_dir leaves job_monitor_tasks
DiskWorkDir ==
    /\ jpc = "workdir"
    /\ \E w \in WorkDirReports :
          LET r == CheckWorkDir(job, w)
              max == GetMaxAllowedWorkDirSize(maxwdir)
          IN
          /\ job' = r.job
          /\ cwd' = [ran |-> w.exists1 /\ w.exists2 /\ ~r.raised,
                     size |-> w.size, max |-> max.n,
                     exit_code |-> r.exit_code, state_before |-> job.state,
                     state_after |-> r.job.state, errors_before |-> job.errors,
                     errors_after |-> r.job.errors,
                     kills |-> r.job.kills - job.kills, called |-> TRUE,
                     exists |-> w.exists1 /\ w.exists2, raised |-> r.raised,
                     cleaned |-> job.infiles # {}, resize |-> w.resize,
                     sizes_before |-> job.sizes]
          /\ IF r.raised
               THEN /\ jpc' = "returned"
                    /\ outcome' = "raised"
                    /\ Gated("ct_diskspace", TRUE, TRUE, FALSE)
                    /\ UNCHANGED <<mt, calls, exit_code, diagnostics>>
             ELSE IF r.exit_code # 0
               THEN DiskFails(r.exit_code, r.diagnostics)
             ELSE /\ mt' = MtUpdate(mt, "ct_diskspace", now)
                  /\ Gated("ct_diskspace", TRUE, TRUE, TRUE)
                  /\ Called("disk", 0, "")
                  /\ Continue("utility")
    /\ UNCHANGED <<now, current_time, utilities, verify_proxy, memory_allowed,
                   maxwdir, heartbeats, cps, crashes, relaunch_from>>
    /\ UNCHANGED mhist2
    /\ UNCHANGED <<cvars, chist, chist2, pvars>>

\* lines 240 and 244: the subprocess has ended and is to be launched again
Relaunches(ut) == ~ut.alive /\ ut.launches <= MaxLaunches

\* lines 85-86: utility_monitor(job) when the job has utility commands
MonitorUtilities ==
    /\ jpc = "utility"
    /\ \E started \in [DOMAIN utilities -> BOOLEAN] :
          LET us == UtilityMonitor(utilities, started) IN
          /\ utilities' = us
          /\ relaunch_from' =
                [u \in UtilityCommands |->
                   IF u \in DOMAIN utilities /\ us[u] # utilities[u]
                     THEN utilities[u].launches
                     ELSE relaunch_from[u]]
    /\ attempts' = [u \in UtilityCommands |->
                       IF u \in DOMAIN utilities /\ Relaunches(utilities[u])
                         THEN attempts[u] + 1
                         ELSE attempts[u]]
    /\ jpc' = "heartbeat"
    /\ gate' = NoGate
    /\ cwd' = NoCwd
    /\ UNCHANGED <<now, current_time, mt, job, verify_proxy, memory_allowed,
                   maxwdir, exit_code, diagnostics, outcome, calls, heartbeats,
                   last_exec, cps, crashes>>
    /\ UNCHANGED <<alg_raised, entry_state, space_left>>
    /\ UNCHANGED <<cvars, chist, chist2, pvars>>

SendHeartbeatSkipped ==
    /\ jpc = "heartbeat"
    /\ heartbeats' = heartbeats
    /\ Return(0, "")
    /\ UNCHANGED <<now, current_time, mt, job, utilities, verify_proxy,
                   memory_allowed, maxwdir, calls, gate, last_exec, cps, cwd,
                   crashes, relaunch_from>>
    /\ UNCHANGED mhist2
    /\ UNCHANGED <<cvars, chist, chist2, pvars>>

\* lines 89-91: send_state(job, args, 'running'); return exit_code, diagnostics
SendHeartbeat ==
    /\ jpc = "heartbeat"
    /\ heartbeats' = heartbeats + 1
    /\ Return(0, "")
    /\ UNCHANGED <<now, current_time, mt, job, utilities, verify_proxy,
                   memory_allowed, maxwdir, calls, gate, last_exec, cps, cwd,
                   crashes, relaunch_from>>
    /\ UNCHANGED mhist2
    /\ UNCHANGED <<cvars, chist, chist2, pvars>>

\* a utility subprocess ends by itself
UtilityCrash ==
    /\ jpc = "idle"
    /\ \E u \in DOMAIN utilities :
          /\ utilities[u].alive
          /\ utilities' = [utilities EXCEPT ![u].alive = FALSE]
          /\ crashes' = [crashes EXCEPT ![u] = @ + 1]
    /\ UNCHANGED <<now, current_time, jpc, mt, job, verify_proxy,
                   memory_allowed, maxwdir, exit_code, diagnostics, outcome,
                   calls, heartbeats, gate, last_exec, cps, cwd, relaunch_from>>
    /\ UNCHANGED mhist2
    /\ UNCHANGED <<cvars, chist, chist2, pvars>>

\* the caller of job_monitor_tasks lets a second or more pass between two
\* calls; what the last call returned is gone by then
Elapse(horizon) ==
    /\ jpc \in {"idle", "returned"}
    /\ now < horizon
    /\ now' = now + 1
    /\ jpc' = "idle"
    /\ exit_code' = 0
    /\ diagnostics' = ""
    /\ outcome' = "none"
    /\ calls' = <<>>
    /\ heartbeats' = 0
    /\ gate' = NoGate
    /\ cps' = NoCps
    /\ cwd' = NoCwd
    /\ UNCHANGED <<current_time, mt, job, utilities, verify_proxy,
                   memory_allowed, maxwdir, last_exec, crashes, relaunch_from>>
    /\ alg_raised' = FALSE
    /\ entry_state' = ""
    /\ space_left' = -1
    /\ UNCHANGED attempts
    /\ UNCHANGED <<cvars, chist, chist2, pvars>>

Tick == Elapse(MonMaxTime)

TickUtility == Elapse(UtilMaxTime)

----------------------------------------------------------------------------
(* The resolution functions as pure functions of their arguments *)

\* strings have at most this many characters
MaxStrLen == 2

\* the characters of the strings tried: digits, a sign, a letter
Alphabet == {"0", "3", "-", "a"}

Strings == UNION { [1..n -> Alphabet] : n \in 0..MaxStrLen }

\* a field of queuedata: None, an int or a str
FieldValues ==
    {PyNone} \cup {PyNum(n) : n \in {-1, 0, 2}} \cup {PyStr(x) : x \in Strings}

\* args.lifetime: 1..MaxLifetime
MaxLifetime == 3

\* bool(v) of a field: None, 0 and '' are false
Truthy(v) ==
    CASE v.t = "none" -> FALSE
      [] v.t = "int" -> v.n # 0
      [] v.t = "str" -> v.s # <<>>

\* get_max_running_time(lifetime, queuedata), lines 201-234; present is FALSE
\* when queuedata is None, maxtime is queuedata.maxtime
GetMaxRunningTime(lifetime, present, maxtime) ==
    IF ~present THEN lifetime
    ELSE IF ~Truthy(maxtime) THEN lifetime
    ELSE LET r == PyInt(maxtime) IN
         IF ~r.ok THEN lifetime
         ELSE IF r.n = 0 THEN lifetime
         ELSE r.n

NoCall == [fn |-> "none", lifetime |-> 0, present |-> FALSE, value |-> PyNone,
           bytes |-> FALSE]
\* what a function returned is n * times
NoResult == [done |-> FALSE, raised |-> FALSE, n |-> 0, times |-> 1]

\* the resolution functions are not part of the other specifications
ResolveIdle == rin = NoCall /\ rout = NoResult

\* a call of get_max_running_time, of get_max_allowed_work_dir_size or of
\* get_local_size_limit_stdout (value: the configured limit)
InitResolve ==
    /\ now = 0
    /\ rout = NoResult
    /\ \/ \E l \in 1..MaxLifetime, present \in BOOLEAN, v \in FieldValues :
             /\ present \/ v = PyNone
             /\ rin = [fn |-> "get_max_running_time", lifetime |-> l,
                       present |-> present, value |-> v, bytes |-> FALSE]
       \/ \E v \in FieldValues :
             rin = [fn |-> "get_max_allowed_work_dir_size", lifetime |-> 0,
                    present |-> TRUE, value |-> v, bytes |-> FALSE]
       \/ \E v \in FieldValues, bytes \in BOOLEAN :
             rin = [fn |-> "get_local_size_limit_stdout", lifetime |-> 0,
                    present |-> TRUE, value |-> v, bytes |-> bytes]

\* lines 201-234
ResolveMaxRunningTime ==
    /\ rin.fn = "get_max_running_time"
    /\ ~rout.done
    /\ rout' = [done |-> TRUE, raised |-> FALSE, times |-> 1,
                n |-> GetMaxRunningTime(rin.lifetime, rin.present, rin.value)]
    /\ UNCHANGED <<now, rin, cvars, chist, chist2, mvars, mhist, mhist2>>

\* lines 445-463
ResolveMaxWorkDirSize ==
    /\ rin.fn = "get_max_allowed_work_dir_size"
    /\ ~rout.done
    /\ LET r == GetMaxAllowedWorkDirSize(rin.value) IN
       rout' = [done |-> TRUE, raised |-> r.raised, n |-> r.n, times |-> 1]
    /\ UNCHANGED <<now, rin, cvars, chist, chist2, mvars, mhist, mhist2>>

\* lines 273-292
ResolveLocalSizeLimit ==
    /\ rin.fn = "get_local_size_limit_stdout"
    /\ ~rout.done
    /\ LET r == LocalSizeLimitStdout(rin.value, rin.bytes) IN
       rout' = [done |-> TRUE, raised |-> FALSE, n |-> r.n, times |-> r.times]
    /\ UNCHANGED <<now, rin, cvars, chist, chist2, mvars, mhist, mhist2>>

\* the control thread is not part of SpecMonitor, the job monitor not of
\* SpecControl
ControlIdle ==
    /\ pc = "done"
    /\ graceful_stop = FALSE
    /\ abort_job = FALSE
    /\ job_aborted = FALSE
    /\ t0 = 0
    /\ tcpu = 0
    /\ pilot_age = 0
    /\ max_running_time = 0
    /\ reached_maxtime = FALSE
    /\ rc_start = -1
    /\ rc_wait_end = -1
    /\ rc_gs_seen = "unread"
    /\ rc_gs_sets = 0
    /\ rc_gs_at = -1
    /\ rc_cleared = FALSE
    /\ rc_result = "none"
    /\ rc_confirmed = -1
    /\ raises = 0
    /\ fatal_at = -1
    /\ stop_age = -1
    /\ excs = 0
    /\ check_age = 0

MonitorIdle ==
    /\ jpc = "off"
    /\ current_time = 0
    /\ mt = MtNew(0)
    /\ job = [state |-> "running", errors |-> {}, kills |-> 0, infiles |-> {},
              present |-> {}, sizes |-> <<>>, cpu_sampled |-> FALSE]
    /\ utilities = <<>>
    /\ verify_proxy = FALSE
    /\ memory_allowed = FALSE
    /\ maxwdir = PyNone
    /\ exit_code = 0
    /\ diagnostics = ""
    /\ outcome = "none"
    /\ calls = <<>>
    /\ heartbeats = 0
    /\ gate = NoGate
    /\ last_exec = [k \in CheckNames |-> NoExec]
    /\ cps = NoCps
    /\ cwd = NoCwd
    /\ crashes = [u \in UtilityCommands |-> 0]
    /\ relaunch_from = [u \in UtilityCommands |-> 0]
    /\ alg_raised = FALSE
    /\ entry_state = ""
    /\ space_left = -1
    /\ attempts = [u \in UtilityCommands |-> 0]

NextMonitor ==
    \/ JobMonitorTasks \/ VerifyMemoryUsage \/ VerifyUserProxy
    \/ VerifyLoopingJob \/ VerifyDiskUsage \/ DiskPayloadStdout
    \/ DiskLocalSpace \/ DiskWorkDir \/ MonitorUtilities \/ SendHeartbeat
    \/ Tick

\* the job monitor alone, with utility commands that keep running
MonitorSession == InitMonitor /\ ControlIdle /\ ResolveIdle

SpecMonitor == MonitorSession /\ [][NextMonitor]_vars

NextUtility ==
    \/ JobMonitorTasks \/ VerifyMemoryUsage \/ VerifyUserProxy
    \/ VerifyLoopingJob \/ VerifyDiskUsage \/ DiskPayloadStdout
    \/ DiskLocalSpace \/ DiskWorkDir \/ MonitorUtilities \/ SendHeartbeat
    \/ UtilityCrash \/ TickUtility

\* the job monitor alone, with utility commands that can end by themselves
UtilitySession == InitUtility /\ ControlIdle /\ ResolveIdle

SpecUtility == UtilitySession /\ [][NextUtility]_vars

NextResolve ==
    \/ ResolveMaxRunningTime \/ ResolveMaxWorkDirSize
    \/ ResolveLocalSizeLimit

\* one call of a resolution function
ResolveSession == InitResolve /\ ControlIdle /\ MonitorIdle

SpecResolve == ResolveSession /\ [][NextResolve]_vars

----------------------------------------------------------------------------
NextControl ==
    \/ CtlLoopTest \/ CtlWait \/ CtlWaited \/ CtlLifetime \/ CtlFinalUpdate
    \/ CtlStop \/ CtlSleep \/ CtlCpu \/ CtlThreadCheck
    \/ RcEnter \/ RcWait1 \/ RcPoll1 \/ RcSleep1 \/ RcGsTest \/ RcGsSet
    \/ RcTest2 \/ RcWait2 \/ RcPoll2 \/ RcSleep2 \/ RcFatal
    \/ EnvSetAbortJob \/ EnvSetJobAborted \/ EnvSetGracefulStop

\* the control thread alone
ControlSession == InitControl /\ MonitorIdle /\ ResolveIdle

SpecControl == ControlSession /\ [][NextControl]_vars

----------------------------------------------------------------------------
(* Claims about the abort escalation, checked under SpecControl *)

\* a run_checks call that saw abort_job set has ended
RcEnded == rc_start # -1 /\ rc_result # "none"

\* C1: in a run_checks call that saw abort_job set, if job_aborted becomes set
\* before the 120 s wait has run out, the call returns through the clean path:
\* abort_job cleared, nothing raised, graceful_stop not set by the call.
C1_AbortCleanPath ==
    (RcEnded /\ rc_confirmed # -1 /\ rc_confirmed - rc_start < TMaxJobAbort)
        => (rc_result = "clean1" /\ rc_cleared /\ rc_gs_sets = 0)

\* C2: when the 120 s wait runs out, graceful_stop ends up set; run_checks
\* calls graceful_stop.set() at most once, only after the wait has run out,
\* and exactly when its test found the event clear; a call that is not
\* confirmed within 120 s cannot end without having gone through the timeout.
C2_GracefulStopForcedOnce ==
    /\ rc_gs_sets <= 1
    /\ rc_gs_sets = 1 =>
          /\ rc_gs_seen = "clear"
          /\ rc_wait_end # -1
          /\ rc_gs_at - rc_start >= TMaxJobAbort
          /\ graceful_stop
    /\ (rc_wait_end # -1 /\ pc \notin {"rc_gs", "rc_gs_set"}) =>
          /\ graceful_stop
          /\ rc_gs_sets = 1 <=> rc_gs_seen = "clear"
    /\ (RcEnded /\ (rc_confirmed = -1 \/ rc_confirmed - rc_start >= TMaxJobAbort)) =>
          /\ rc_wait_end # -1
          /\ graceful_stop

C2_Witness ==
    /\ pc = "rc_test2"
    /\ rc_gs_sets = 1
    /\ rc_confirmed = -1
    /\ now - rc_start = TMaxJobAbort

\* C3: when the 10 s confirmation wait runs out, abort_job is cleared,
\* job_aborted is set and ExceededMaxWaitTime is raised, 10 s or more after
\* the 120 s wait ended; the fault is raised at most once in a session, and a
\* run_checks call that saw abort_job set and never saw a confirmation from
\* the job side cannot end in any other way.
C3_FatalTimeout ==
    /\ raises <= 1
    /\ raises = 1 <=> rc_result = "fatal"
    /\ rc_result = "fatal" =>
          /\ pc = "raised"
          /\ ~abort_job
          /\ job_aborted
          /\ rc_cleared
          /\ graceful_stop
          /\ fatal_at - rc_wait_end >= TMaxConfirm
    /\ (RcEnded /\ rc_confirmed = -1) => rc_result = "fatal"

C3_Witness ==
    /\ pc = "raised"
    /\ rc_result = "fatal"
    /\ rc_confirmed = -1
    /\ raises = 1

----------------------------------------------------------------------------
(* Claims about job_monitor_tasks *)

\* the configured interval of a gated check
Interval(key) ==
    CASE key = "ct_memory" -> MemoryVerificationTime
      [] key = "ct_proxy" -> ProxyVerificationTime
      [] key = "ct_looping" -> LoopingVerificationTime
      [] key = "ct_diskspace" -> DiskSpaceVerificationTime

\* the wrapper of some check has run in this invocation and the check has
\* been executed before
GateSeen == gate.check # "none" /\ gate.since # -1

\* C5 as stated: a wrapper that executes its check does so more than I
\* seconds after the check's previous execution, whatever that execution
\* returned.
C5_GatingWhateverResult ==
    (GateSeen /\ gate.ran) => gate.since > Interval(gate.check)

\* C5: two invocations of a verify_* wrapper within I seconds of each other
\* execute the check at most once when the earlier execution returned 0 (a
\* non-zero result leaves the timestamp alone, and the next invocation
\* executes the check again); an invocation more than I seconds after the
\* last executed run executes the check again.
C5_IntervalGating ==
    /\ (GateSeen /\ gate.ran /\ gate.prev_ok) =>
          gate.since > Interval(gate.check)
    /\ (GateSeen /\ gate.since > Interval(gate.check)) => gate.ran

C5_Witness ==
    /\ GateSeen
    /\ gate.ran
    /\ gate.prev_ok
    /\ gate.since = Interval(gate.check) + 1

\* the place of a check in the battery
Rank(name) ==
    CASE name = "memory" -> 1
      [] name = "proxy" -> 2
      [] name = "looping" -> 3
      [] name = "disk" -> 4

\* C6: in every invocation of job_monitor_tasks the checks return in the
\* order memory, proxy, looping, disk; a check that returns a non-zero exit
\* code is the last one invoked, job_monitor_tasks goes no further and its
\* result is that check's (exit_code, diagnostics).
C6_OrderAndShortCircuit ==
    /\ \A i, k \in 1..Len(calls) :
          i < k => Rank(calls[i].name) < Rank(calls[k].name)
    /\ \A i \in 1..Len(calls) :
          calls[i].exit_code # 0 =>
             /\ i = Len(calls)
             /\ jpc = "returned"
             /\ outcome = "returned"
             /\ exit_code = calls[i].exit_code
             /\ diagnostics = calls[i].diagnostics
             /\ heartbeats = 0
    /\ (jpc = "returned" /\ outcome = "returned" /\ exit_code # 0) =>
          /\ calls # <<>>
          /\ calls[Len(calls)].exit_code = exit_code

C6_Witness ==
    /\ jpc = "returned"
    /\ Len(calls) = 3
    /\ calls[1].name = "memory"
    /\ calls[2].name = "proxy"
    /\ calls[3].name = "looping"
    /\ calls[3].exit_code # 0
    /\ exit_code = calls[3].exit_code

\* C7: when a checked file is over the stdout limit, check_payload_stdout
\* returns a non-zero exit code, the job is failed with the stdout-too-big
\* code, the payload is killed and the listed input files are gone, for every
\* input file list; when no checked file is over the limit it returns 0 and
\* leaves job.state alone.
C7_OutputSizeCheck ==
    cps.ran =>
       IF cps.big
         THEN /\ cps.exit_code # 0
              /\ cps.state_after = "failed"
              /\ STDOUTTOOBIG \in cps.errors
              /\ cps.kills >= 1
              /\ cps.present = {}
         ELSE /\ cps.exit_code = 0
              /\ cps.state_after = cps.state_before

\* C8: a work directory larger than the resolved maximum makes
\* check_work_dir return a non-zero result with the user-directory-too-large
\* code on the job, the payload killed and the job failed; a work directory
\* within the maximum leaves the job's state and error codes alone and
\* returns 0.
C8_WorkDirSizeCheck ==
    cwd.ran =>
       IF cwd.size > cwd.max
         THEN /\ cwd.exit_code # 0
              /\ USERDIRTOOLARGE \in cwd.errors_after
              /\ cwd.kills >= 1
              /\ cwd.state_after = "failed"
         ELSE /\ cwd.exit_code = 0
              /\ cwd.state_after = cwd.state_before
              /\ cwd.errors_after = cwd.errors_before

\* C15: when the looping check is due and the looping job algorithm
\* raises, verify_looping_job returns UNKNOWNEXCEPTION with the exception
\* text in the diagnostics, job_monitor_tasks returns that pair and nothing
\* is raised; the ct_looping timestamp is left as it was.
C15_LoopingExceptionAbsorbed ==
    /\ [](alg_raised =>
            /\ jpc = "returned"
            /\ outcome = "returned"
            /\ exit_code = UNKNOWNEXCEPTION
            /\ exit_code # 0
            /\ diagnostics = LoopingRaisedText
            /\ gate.check = "ct_looping"
            /\ gate.due)
    /\ [][(alg_raised' /\ ~alg_raised) => mt' = mt]_vars

C15_Witness ==
    /\ alg_raised
    /\ calls # <<>>
    /\ calls[Len(calls)].name = "looping"
    /\ calls[Len(calls)].exit_code = UNKNOWNEXCEPTION

UpdateStep(key) ==
    CASE key = "ct_memory" -> "memory"
      [] key = "ct_proxy" -> "proxy"
      [] key = "ct_looping" -> "looping"
      [] key = "ct_diskspace" -> "workdir"

\* C20 as stated: once the underlying check of a wrapper has been executed,
\* the MonitoringTime entry of that check has been updated at or after that
\* execution, whatever the check returned.
C20_UpdatedAfterEachExecution ==
    \A k \in CheckNames :
        last_exec[k].t # -1 => mt[k] >= last_exec[k].t

\* C20: the MonitoringTime entry of a check carries the time of the last
\* execution of the check exactly when that execution returned 0, and is
\* older than it when the execution returned a non-zero exit code or raised;
\* an entry changes only in the step of its own wrapper, to the present
\* time, and never decreases.
C20_UpdateDiscipline ==
    /\ [](\A k \in CheckNames :
            last_exec[k].t # -1 =>
                IF last_exec[k].ok THEN mt[k] = last_exec[k].t
                                   ELSE mt[k] < last_exec[k].t)
    /\ [][\A k \in CheckNames :
            mt'[k] # mt[k] =>
                /\ jpc = UpdateStep(k)
                /\ mt'[k] = now
                /\ mt'[k] > mt[k]
                /\ \A o \in CheckNames \ {k} : mt'[o] = mt[o]]_vars

C20_Witness ==
    /\ jpc = "returned"
    /\ last_exec["ct_memory"].ok
    /\ mt["ct_memory"] = last_exec["ct_memory"].t
    /\ mt["ct_memory"] > 0
    /\ last_exec["ct_proxy"].t > mt["ct_memory"]
    /\ ~last_exec["ct_proxy"].ok
    /\ mt["ct_proxy"] = 0

\* the verify_* wrappers called so far in this job_monitor_tasks call
CallNames == { calls[i].name : i \in 1..Len(calls) }

\* the wrapper called which returned a non-zero exit code
FailedCall(name) ==
    \E i \in 1..Len(calls) : calls[i].name = name /\ calls[i].exit_code # 0

\* C21: the CPU time is sampled and verify_memory_usage is called only in a
\* job_monitor_tasks call that found job.state = 'running' at entry;
\* verify_looping_job is called whatever the state is, unless the memory or
\* proxy check has returned a non-zero exit code before, and so is
\* verify_disk_usage, unless the looping check has.
C21_StatePrecondition ==
    entry_state # "" =>
        /\ job.cpu_sampled => entry_state = "running"
        /\ "memory" \in CallNames => entry_state = "running"
        /\ (jpc = "returned" /\ ~FailedCall("memory") /\ ~FailedCall("proxy")) =>
              /\ "looping" \in CallNames
              /\ \/ FailedCall("looping")
                 \/ "disk" \in CallNames
                 \/ outcome = "raised"

C21_Witness ==
    /\ entry_state = "stageout"
    /\ jpc = "returned"
    /\ ~job.cpu_sampled
    /\ CallNames = {"looping", "disk"}
    /\ last_exec["ct_looping"].t = current_time
    /\ last_exec["ct_diskspace"].t = current_time

\* the size a check_work_dir call has to store: the measured size, on the
\* fail path the size measured again after the input files were removed
RecordedSize ==
    IF cwd.size > cwd.max /\ cwd.cleaned THEN cwd.resize ELSE cwd.size

\* C22: a check_work_dir call on an existing work directory appends one
\* value, the recorded size, to job.workdirsizes when that size is greater
\* than zero and nothing otherwise, on the pass and on the fail path; a call
\* on a missing work directory appends nothing; earlier entries stay.
C22_SizeHistory ==
    cwd.called =>
        job.sizes = IF cwd.exists /\ RecordedSize > 0
                      THEN Append(cwd.sizes_before, RecordedSize)
                      ELSE cwd.sizes_before

\* the same for the calls that return
C22_SizeHistoryOfReturningCalls ==
    (cwd.called /\ ~cwd.raised) =>
        job.sizes = IF cwd.exists /\ RecordedSize > 0
                      THEN Append(cwd.sizes_before, RecordedSize)
                      ELSE cwd.sizes_before

\* C23: check_local_space returns NOLOCALSPACE exactly when the free space
\* is at or below the threshold and 0 otherwise, and changes nothing of the
\* job (state, error codes, payload kills, input files) nor of its utility
\* commands; verify_disk_usage returns a no-local-space result to
\* job_monitor_tasks, which returns it: check_work_dir is not called, the
\* ct_diskspace timestamp stays and no heartbeat is sent.
C23_LocalSpaceCheck ==
    /\ [][jpc = "space" => (job' = job /\ utilities' = utilities)]_vars
    /\ [](space_left # -1 =>
            IF space_left * 1024 * 1024 <= FreeSpaceLimit
              THEN /\ jpc = "returned"
                   /\ outcome = "returned"
                   /\ exit_code = NOLOCALSPACE
                   /\ calls[Len(calls)].name = "disk"
                   /\ calls[Len(calls)].exit_code = NOLOCALSPACE
                   /\ ~cwd.called
                   /\ heartbeats = 0
                   /\ mt["ct_diskspace"] < current_time
              ELSE /\ exit_code # NOLOCALSPACE
                   /\ ~FailedCall("disk") \/ cwd.called)

C23_Witness ==
    /\ space_left * 1024 * 1024 = FreeSpaceLimit
    /\ exit_code = NOLOCALSPACE
    /\ job.state = "running"
    /\ job.kills = 0
    /\ job.errors = {}
    /\ job.present = {"in1"}

\* C28: once a disk check of this job_monitor_tasks call has killed the
\* payload and set job.state to 'failed', the call is over: no further check
\* and no utility_monitor run, the payload is killed once, ct_diskspace is
\* not updated and no heartbeat is sent.
C28_NothingAfterFatalDiskCheck ==
    (entry_state # "" /\ job.kills >= 1) =>
        /\ job.state = "failed"
        /\ jpc = "returned"
        /\ job.kills = 1
        /\ mt["ct_diskspace"] < current_time
        /\ heartbeats = 0

----------------------------------------------------------------------------
(* Claims about utility_monitor *)

\* C9 as stated: the launch counter of every utility record is at most 5.
C9_LaunchCounterAtMostFive ==
    \A u \in DOMAIN utilities : utilities[u].launches <= MaxLaunches

\* C9: the launch counter of every utility record is at most 6: a crashed
\* utility is relaunched while its counter is at most 5, which takes the
\* counter to 6; no relaunch starts from a counter above 5, so a record whose
\* counter has passed 5 is never relaunched again.
C9_LaunchCounterCap ==
    \A u \in DOMAIN utilities :
        /\ utilities[u].launches <= MaxLaunches + 1
        /\ relaunch_from[u] <= MaxLaunches
        /\ utilities[u].launches >= 1
        /\ relaunch_from[u] # 0 => relaunch_from[u] < utilities[u].launches

C9_Witness ==
    \E u \in DOMAIN utilities :
        /\ jpc = "heartbeat"
        /\ relaunch_from[u] = MaxLaunches
        /\ utilities[u].launches = MaxLaunches + 1
        /\ ~utilities[u].alive

\* C10: the launch counter of a utility command never decreases, and a
\* command that has crashed 6 times (its first launch being launch 1) stays
\* crashed: the 6th crash is not followed by a relaunch.
C10_RestartCount ==
    /\ [][\A u \in DOMAIN utilities :
             utilities'[u].launches >= utilities[u].launches]_vars
    /\ [](\A u \in DOMAIN utilities :
             crashes[u] >= MaxLaunches + 1 =>
                /\ ~utilities[u].alive
                /\ crashes[u] = MaxLaunches + 1
                /\ utilities[u].launches = MaxLaunches + 1)

C10_Witness ==
    \E u \in DOMAIN utilities :
        /\ crashes[u] = MaxLaunches + 1
        /\ jpc = "returned"
        /\ heartbeats = 1

\* C24: over a session utility_monitor calls execute at most 5 times to
\* relaunch a utility command, the calls that raise included.
C24_BoundedRestartAttempts ==
    \A u \in UtilityCommands : attempts[u] <= MaxLaunches

\* the same for the calls of execute that return
C24_BoundedRelaunches ==
    \A u \in DOMAIN utilities :
        /\ utilities[u].launches - 1 <= MaxLaunches
        /\ utilities[u].launches - 1 <= attempts[u]

----------------------------------------------------------------------------
(* Claims about the control loop, checked under SpecControl *)

\* the control thread is about to run a check step of lines 71-107: the
\* lifetime check, the CPU sample, run_checks or the thread check
AtCheckStep ==
    pc \in {"lifetime", "final_update", "cpu", "run_checks", "thread"}
       \/ InRunChecks

\* C12: once graceful_stop is set, whoever set it and at whatever point of a
\* tick, the control loop runs no further check step (lifetime check, CPU
\* sample, run_checks, thread check) before it ends.
C12_NoCheckAfterStop ==
    [][graceful_stop => ~(AtCheckStep /\ pc' # pc)]_vars

\* C13: from any point of the control loop, run_checks and its waits
\* included, the loop has ended one second after graceful_stop became set.
C13_BoundedLatency ==
    (Running /\ stop_age # -1) => stop_age <= 1

\* line 73: the pilot has run out of time
Overrun == TimeSinceStart - GraceTime > max_running_time

C18_ExceptionBoundary ==
    /\ [](/\ excs <= 1
          /\ excs = 1 <=> pc = "raised"
          /\ raises <= excs)
    /\ [][pc = "raised" => (pc' = "raised" /\ now' = now /\ cvars' = cvars)]_vars

C18_Witness ==
    /\ pc = "raised"
    /\ excs = 1
    /\ raises = 0

\* C19: a run_checks call that saw abort_job set has called
\* abort_job.clear() when it returns or raises, whenever the job side sets
\* job_aborted, also when that happens between the end of the 120 s wait and
\* the test that opens the 10 s confirmation wait.
C19_AbortJobCleared ==
    RcEnded => rc_cleared

\* a step of the control thread: every statement of control and run_checks
\* moves its position, the other threads leave it alone
CoreStep == pc' # pc

\* C25 as stated: no step of control or run_checks changes abort_job, clears
\* graceful_stop or sets job_aborted.
C25_CoreOnlyReadsAbortJob ==
    [][CoreStep => /\ abort_job' = abort_job
                   /\ graceful_stop => graceful_stop'
                   /\ job_aborted' => job_aborted]_vars

\* C25: a step of control or run_checks never sets abort_job and clears it
\* only where run_checks ends (lines 174, 191, 196), never clears
\* graceful_stop, never clears job_aborted and sets it only at the fatal
\* timeout (line 197).
C25_SignalWriteDiscipline ==
    [][CoreStep =>
         /\ abort_job' => abort_job
         /\ abort_job' # abort_job =>
               /\ pc \in {"rc_poll1", "rc_poll2", "rc_fatal"}
               /\ pc' \in {"thread", "raised"}
               /\ rc_cleared'
         /\ graceful_stop => graceful_stop'
         /\ job_aborted => job_aborted'
         /\ job_aborted' # job_aborted =>
               /\ pc = "rc_fatal"
               /\ pc' = "raised"]_vars

C25_Witness ==
    /\ rc_result = "fatal"
    /\ rc_confirmed = -1
    /\ job_aborted
    /\ ~abort_job
    /\ rc_cleared
    /\ graceful_stop
    /\ rc_gs_sets = 1

\* C27: while the control loop ticks, the threads are enumerated at least
\* once in every thread_check_interval seconds: the loop never spends more
\* than that many seconds in its ticks without enumerating them.
C27_PeriodicThreadCheck ==
    Running => check_age <= ThreadCheckTime

\* the thread check ends nothing and sets no event
C27_ThreadCheckOnlyLogs ==
    [][pc = "thread" =>
          /\ pc' \in {"thread", "loop"}
          /\ pc' = "loop" => /\ graceful_stop' = graceful_stop
                             /\ abort_job' = abort_job
                             /\ job_aborted' = job_aborted]_vars

----------------------------------------------------------------------------
(* Claims about the resolution functions, checked under SpecResolve *)

\* queuedata.maxtime is there, is not empty and parses to a positive integer
PositiveMaxtime(present, v) ==
    /\ present
    /\ v # PyNone
    /\ v # PyStr(<<>>)
    /\ PyInt(v).ok
    /\ PyInt(v).n > 0

\* C11: get_max_running_time returns int(queuedata.maxtime) when queuedata is
\* present and maxtime is non-empty and parses to a positive integer, and the
\* default lifetime in every other case (no queuedata, maxtime empty, 0,
\* unparseable, zero or negative after parsing); it raises nothing and its
\* result is positive for a positive lifetime.
C11_MaxRunningTime ==
    (rin.fn = "get_max_running_time" /\ rout.done) =>
        /\ ~rout.raised
        /\ rout.n = IF PositiveMaxtime(rin.present, rin.value)
                      THEN PyInt(rin.value).n
                      ELSE rin.lifetime
        /\ rout.n > 0

\* C16: get_max_allowed_work_dir_size returns int(queuedata.maxwdir) * 1024^2
\* when maxwdir parses as an integer, and else the default max input size
\* (14336 MB, in bytes) plus the stdout size limit in bytes; it never raises.
C16_MaxWorkDirSize ==
    (rin.fn = "get_max_allowed_work_dir_size" /\ rout.done) =>
        /\ ~rout.raised
        /\ rout.n = IF PyInt(rin.value).ok
                      THEN PyInt(rin.value).n * 1024 * 1024
                      ELSE 14 * 1024 * 1024 * 1024 + GetLocalSizeLimitStdout(TRUE)

\* C26: get_local_size_limit_stdout(bytes=True) returns the configured kB
\* value times 1024, and 2048 * 1024 = 2097152 when the configured value is
\* missing or does not parse; with bytes=False it returns the kB value, 2048
\* by default.
C26_StdoutSizeLimit ==
    (rin.fn = "get_local_size_limit_stdout" /\ rout.done) =>
        /\ ~rout.raised
        /\ rout.times = IF rin.bytes THEN 1024 ELSE 1
        /\ rout.n = IF PyInt(rin.value).ok THEN PyInt(rin.value).n ELSE 2048

\* the same for the configured values that parse
C26_StdoutSizeLimitOfParsedValues ==
    (rin.fn = "get_local_size_limit_stdout" /\ rout.done /\ PyInt(rin.value).ok) =>
        /\ ~rout.raised
        /\ rout.times = IF rin.bytes THEN 1024 ELSE 1
        /\ rout.n = PyInt(rin.value).n

====
